---- MODULE Spec2Model ----
(***************************************************************************)
(* Model of the DNS benchmark engine of src/v1/main.go: the main goroutine *)
(* (collector / completion detector), the producer goroutine, the worker   *)
(* goroutines (makeRequest) and the stats sampler (updateStats), together  *)
(* with the three channels domains, pipe and done and the shared counters. *)
(*                                                                         *)
(* Every goroutine is a small program-counter machine.  A send and a       *)
(* receive on an unbuffered channel are one joint step.  A Go run-time     *)
(* panic aborts the whole process: status becomes "panicked" and no        *)
(* goroutine takes another step.  stats.X++ on the unsynchronised counters *)
(* is a load followed by a store.                                          *)
(***************************************************************************)
EXTENDS Integers, Sequences, FiniteSets, TLC

\* ---- bounds of the model ----
MaxT == 2          \* largest thread count (-t) explored
MaxM == 2          \* largest word list explored
MaxClock == 2      \* the clock stops advancing at this many ticker periods
MaxDisplays == 1   \* redraws of the live rate line that are explored

\* ---- fixed-point scale used for the float64 rate ----
RateScale == 10

VARIABLES
  threads,       \* *threads
  domainCount,   \* len(qnames)
  verbose,       \* *verbose
  status,        \* "running", "panicked" (run-time panic) or "exited"
  panicMsg,      \* the run-time error that aborted the process
  panicBy,       \* the goroutine that panicked
  mainPanicking, \* main is panicking and runs its deferred calls
  stats,         \* the statistics struct
  domains,       \* buffer of the Work Queue channel
  domainsClosed,
  pipeClosed,
  doneClosed,
  connCloses,    \* number of conn.Close() calls
  now,           \* time.Since(startTime), in ticker periods
  mpc, i, response, mreg, mTick,       \* main goroutine
  ppc, pidx,                           \* producer goroutine
  wpc, wItem, wreg,                    \* workers
  spc, sTick, displays,                \* sampler
  timeValues, rateValues, avgRate,
  graph,         \* what BuildGraph was handed
  report,        \* what the final summary printed
  \* history of the run
  pipeCloses,    \* close(pipe) statements executed
  timeouts,      \* times the timeout branch of the collector fired
  nWrites,       \* per worker: WriteMsg calls completed
  nSent,         \* per worker: signals delivered on pipe
  writeFails,    \* WriteMsg calls that returned an error
  readFails,     \* ReadMsg calls that returned an error
  readOks,       \* ReadMsg calls that decoded
  dequeued,      \* per work item: times a worker took it from domains
  written,       \* per work item: WriteMsg calls made for it
  failIncs       \* stats.fail++ statements completed by workers

vars == <<threads, domainCount, verbose, status, panicMsg, panicBy,
          mainPanicking, stats,
          domains, domainsClosed, pipeClosed, doneClosed, connCloses, now,
          mpc, i, response, mreg, mTick, ppc, pidx, wpc, wItem, wreg,
          spc, sTick, displays, timeValues, rateValues, avgRate, graph,
          report, pipeCloses, timeouts, nWrites, nSent, writeFails,
          readFails, readOks, dequeued, written, failIncs>>

Workers == 1..threads

Running == status = "running"

\* the unchanged groups
cfgVars == <<threads, domainCount, verbose>>
mainVars == <<mpc, i, response, mreg, mTick>>
prodVars == <<ppc, pidx>>
workVars == <<wpc, wItem, wreg>>
sampVars == <<spc, sTick, displays, timeValues, rateValues, avgRate>>
chanVars == <<domains, domainsClosed, pipeClosed, doneClosed, connCloses>>
histVars == <<pipeCloses, timeouts, nWrites, nSent, writeFails, readFails, readOks>>
itemVars == <<dequeued, written, failIncs>>
panicVars == <<status, panicMsg, panicBy, mainPanicking>>

\* a run-time panic of goroutine g, which has no deferred calls: the
\* process is aborted at once
Panic(g, msg) ==
  /\ status' = "panicked"
  /\ panicMsg' = msg
  /\ panicBy' = g
  /\ UNCHANGED mainPanicking

\* a run-time panic of the main goroutine: its deferred calls run, the
\* other goroutines go on, and the process is aborted when main unwinds
MainPanic(msg) ==
  /\ mainPanicking' = TRUE
  /\ panicMsg' = msg
  /\ panicBy' = "main"
  /\ UNCHANGED status

\* successCount / runTime of getStatAvg, in fixed point
getStatAvg == (stats.success * RateScale) \div now

Init ==
  /\ threads \in 1..MaxT
  /\ domainCount \in 0..MaxM
  /\ verbose \in BOOLEAN
  /\ status = "running"
  /\ panicMsg = "none"
  /\ panicBy = "none"
  /\ mainPanicking = FALSE
  /\ stats = [attempts |-> 0, success |-> 0, fail |-> 0]
  /\ domains = <<>>
  /\ domainsClosed = FALSE
  /\ pipeClosed = FALSE
  /\ doneClosed = FALSE
  /\ connCloses = 0
  /\ now = 1
  /\ mpc = "loop"
  /\ i = 0
  /\ response = "none"
  /\ mreg = 0
  /\ mTick = FALSE
  /\ ppc = "range"
  /\ pidx = 0
  /\ wpc = [w \in 1..MaxT |-> IF w <= threads THEN "range" ELSE "absent"]
  /\ wItem = [w \in 1..MaxT |-> 0]
  /\ wreg = [w \in 1..MaxT |-> 0]
  /\ spc = IF verbose THEN "absent" ELSE "select"
  /\ sTick = FALSE
  /\ displays = 0
  /\ timeValues = <<0>>
  /\ rateValues = <<0>>
  /\ avgRate = 0
  /\ graph = [built |-> FALSE, timeLen |-> 0, rateLen |-> 0]
  /\ report = [printed |-> FALSE, attempts |-> 0, success |-> 0, fail |-> 0]
  /\ pipeCloses = 0
  /\ timeouts = 0
  /\ nWrites = [w \in 1..MaxT |-> 0]
  /\ nSent = [w \in 1..MaxT |-> 0]
  /\ writeFails = 0
  /\ readFails = 0
  /\ readOks = 0
  /\ dequeued = [k \in 1..MaxM |-> 0]
  /\ written = [k \in 1..MaxM |-> 0]
  /\ failIncs = 0

\* ---------------------------------------------------------------------
\* the clock: one ticker period passes, every live ticker fires
\* ---------------------------------------------------------------------
Tick ==
  /\ Running
  /\ now < MaxClock
  /\ now' = now + 1
  /\ mTick' = TRUE
  /\ sTick' = (spc # "absent")
  /\ UNCHANGED <<cfgVars, panicVars, stats, chanVars, mpc, i, response, mreg,
                 prodVars, workVars, spc, displays, timeValues, rateValues,
                 avgRate, graph, report, histVars, itemVars>>

\* ---------------------------------------------------------------------
\* producer goroutine, main.go 74-79
\* ---------------------------------------------------------------------
\* mutant: the producer counts an item again when it finds the list exhausted
ProducerNext_CountsTwice ==
  /\ Running
  /\ ppc = "range"
  /\ stats' = [stats EXCEPT !.attempts = @ + 1]
  /\ ppc' = IF pidx < domainCount THEN "send" ELSE "done"
  /\ UNCHANGED <<cfgVars, panicVars, chanVars, now, mainVars, pidx, workVars,
                 sampVars, graph, report, histVars, itemVars>>

ProducerNext ==
  /\ Running
  /\ ppc = "range"
  /\ IF pidx < domainCount
       THEN /\ stats' = [stats EXCEPT !.attempts = @ + 1]
            /\ ppc' = "send"
       ELSE /\ ppc' = "done"
            /\ UNCHANGED stats
  /\ UNCHANGED <<cfgVars, panicVars, chanVars, now, mainVars, pidx, workVars,
                 sampVars, graph, report, histVars, itemVars>>

ProducerSend ==
  /\ Running
  /\ ppc = "send"
  /\ IF domainsClosed
       THEN /\ Panic("producer", "send on closed channel")
            /\ UNCHANGED <<domains, ppc, pidx>>
       ELSE /\ Len(domains) < threads
            /\ domains' = Append(domains, pidx + 1)
            /\ pidx' = pidx + 1
            /\ ppc' = "range"
            /\ UNCHANGED panicVars
  /\ UNCHANGED <<cfgVars, stats, domainsClosed, pipeClosed, doneClosed,
                 connCloses, now, mainVars, workVars, sampVars, graph, report,
                 histVars, itemVars>>

\* ---------------------------------------------------------------------
\* worker goroutine makeRequest, main.go 107-123
\* ---------------------------------------------------------------------
\* mutant: the worker counts the attempt again when it dequeues the item
WorkerDequeue_CountsAttempt(w) ==
  /\ Running
  /\ wpc[w] = "range"
  /\ domains # <<>>
  /\ wItem' = [wItem EXCEPT ![w] = Head(domains)]
  /\ domains' = Tail(domains)
  /\ wpc' = [wpc EXCEPT ![w] = "write"]
  /\ dequeued' = [dequeued EXCEPT ![Head(domains)] = @ + 1]
  /\ stats' = [stats EXCEPT !.attempts = @ + 1]
  /\ UNCHANGED <<cfgVars, panicVars, domainsClosed, pipeClosed,
                 doneClosed, connCloses, now, mainVars, prodVars, wreg,
                 sampVars, graph, report, histVars, written, failIncs>>

WorkerDequeue(w) ==
  /\ Running
  /\ wpc[w] = "range"
  /\ domains # <<>>
  /\ wItem' = [wItem EXCEPT ![w] = Head(domains)]
  /\ domains' = Tail(domains)
  /\ wpc' = [wpc EXCEPT ![w] = "write"]
  /\ dequeued' = [dequeued EXCEPT ![Head(domains)] = @ + 1]
  /\ UNCHANGED <<cfgVars, panicVars, stats, domainsClosed, pipeClosed,
                 doneClosed, connCloses, now, mainVars, prodVars, wreg,
                 sampVars, graph, report, histVars, written, failIncs>>

WorkerRangeEnd(w) ==
  /\ Running
  /\ wpc[w] = "range"
  /\ domains = <<>>
  /\ domainsClosed
  /\ wpc' = [wpc EXCEPT ![w] = "close"]
  /\ UNCHANGED <<cfgVars, panicVars, stats, chanVars, now, mainVars, prodVars,
                 wItem, wreg, sampVars, graph, report, histVars, itemVars>>

\* mutant: a failed write is tried once more for the same item
WorkerWrite_Retry(w) ==
  /\ Running
  /\ wpc[w] = "write"
  /\ \E ok \in BOOLEAN :
       /\ (connCloses > 0) => ~ok
       /\ nWrites' = [nWrites EXCEPT ![w] = @ + 1]
       /\ IF ok
            THEN /\ wpc' = [wpc EXCEPT ![w] = "send"]
                 /\ UNCHANGED writeFails
            ELSE /\ wpc' = [wpc EXCEPT ![w] =
                           IF written[wItem[w]] = 0 THEN "write" ELSE "failLoad"]
                 /\ writeFails' = writeFails + 1
  /\ written' = [written EXCEPT ![wItem[w]] = @ + 1]
  /\ UNCHANGED <<cfgVars, panicVars, stats, chanVars, now, mainVars, prodVars,
                 wItem, wreg, sampVars, graph, report, pipeCloses, timeouts,
                 nSent, readFails, readOks,
                 dequeued, failIncs>>

WorkerWrite(w) ==
  /\ Running
  /\ wpc[w] = "write"
  /\ \E ok \in BOOLEAN :
       /\ (connCloses > 0) => ~ok
       /\ nWrites' = [nWrites EXCEPT ![w] = @ + 1]
       /\ IF ok
            THEN /\ wpc' = [wpc EXCEPT ![w] = "send"]
                 /\ UNCHANGED writeFails
            ELSE /\ wpc' = [wpc EXCEPT ![w] = "failLoad"]
                 /\ writeFails' = writeFails + 1
  /\ written' = [written EXCEPT ![wItem[w]] = @ + 1]
  /\ UNCHANGED <<cfgVars, panicVars, stats, chanVars, now, mainVars, prodVars,
                 wItem, wreg, sampVars, graph, report, pipeCloses, timeouts,
                 nSent, readFails, readOks,
                 dequeued, failIncs>>

WorkerFailLoad(w) ==
  /\ Running
  /\ wpc[w] = "failLoad"
  /\ wreg' = [wreg EXCEPT ![w] = stats.fail]
  /\ wpc' = [wpc EXCEPT ![w] = "failStore"]
  /\ UNCHANGED <<cfgVars, panicVars, stats, chanVars, now, mainVars, prodVars,
                 wItem, sampVars, graph, report, histVars, itemVars>>

\* mutant: a failed write skips the signal (continue after the error)
WorkerFailStore_NoSignal(w) ==
  /\ Running
  /\ wpc[w] = "failStore"
  /\ stats' = [stats EXCEPT !.fail = wreg[w] + 1]
  /\ wreg' = [wreg EXCEPT ![w] = 0]
  /\ wpc' = [wpc EXCEPT ![w] = "range"]
  /\ failIncs' = failIncs + 1
  /\ UNCHANGED <<cfgVars, panicVars, chanVars, now, mainVars, prodVars,
                 wItem, sampVars, graph, report, histVars, dequeued, written>>

\* mutant: the worker returns after a write error
WorkerFailStore_Stops(w) ==
  /\ Running
  /\ wpc[w] = "failStore"
  /\ stats' = [stats EXCEPT !.fail = wreg[w] + 1]
  /\ wreg' = [wreg EXCEPT ![w] = 0]
  /\ wpc' = [wpc EXCEPT ![w] = "done"]
  /\ failIncs' = failIncs + 1
  /\ UNCHANGED <<cfgVars, panicVars, chanVars, now, mainVars, prodVars,
                 wItem, sampVars, graph, report, histVars, dequeued, written>>

WorkerFailStore(w) ==
  /\ Running
  /\ wpc[w] = "failStore"
  /\ stats' = [stats EXCEPT !.fail = wreg[w] + 1]
  /\ wreg' = [wreg EXCEPT ![w] = 0]
  /\ wpc' = [wpc EXCEPT ![w] = "send"]
  /\ failIncs' = failIncs + 1
  /\ UNCHANGED <<cfgVars, panicVars, chanVars, now, mainVars, prodVars,
                 wItem, sampVars, graph, report, histVars, dequeued, written>>

\* pipe <- conn on a closed pipe
WorkerSendClosed(w) ==
  /\ Running
  /\ wpc[w] = "send"
  /\ pipeClosed
  /\ Panic("worker", "send on closed channel")
  /\ UNCHANGED <<cfgVars, stats, chanVars, now, mainVars, prodVars, workVars,
                 sampVars, graph, report, histVars, itemVars>>

\* close(pipe) after the range loop
WorkerClose(w) ==
  /\ Running
  /\ wpc[w] = "close"
  /\ pipeCloses' = pipeCloses + 1
  /\ IF pipeClosed
       THEN /\ Panic("worker", "close of closed channel")
            /\ UNCHANGED <<pipeClosed, wpc>>
       ELSE /\ pipeClosed' = TRUE
            /\ wpc' = [wpc EXCEPT ![w] = "done"]
            /\ UNCHANGED panicVars
  /\ UNCHANGED <<cfgVars, stats, domains, domainsClosed, doneClosed,
                 connCloses, now, mainVars, prodVars, wItem, wreg, sampVars,
                 graph, report, timeouts, nWrites, nSent, writeFails,
                 readFails, readOks,
                 itemVars>>

\* ---------------------------------------------------------------------
\* main goroutine: collector loop, main.go 85-103
\* ---------------------------------------------------------------------
MainLoop ==
  /\ Running
  /\ mpc = "loop"
  /\ IF i < domainCount
       THEN /\ mpc' = "select"
            /\ mTick' = FALSE
       ELSE /\ mpc' = "finalStats"
            /\ UNCHANGED mTick
  /\ UNCHANGED <<cfgVars, panicVars, stats, chanVars, now, i, response, mreg,
                 prodVars, workVars, sampVars, graph, report, histVars, itemVars>>

\* case response := <-pipe, meeting the send of worker w
MainRecv(w) ==
  /\ Running
  /\ mpc = "select"
  /\ ~pipeClosed
  /\ wpc[w] = "send"
  /\ wpc' = [wpc EXCEPT ![w] = "range"]
  /\ nSent' = [nSent EXCEPT ![w] = @ + 1]
  /\ response' = "conn"
  /\ mpc' = "read"
  /\ UNCHANGED <<cfgVars, panicVars, stats, chanVars, now, i, mreg, mTick,
                 prodVars, wItem, wreg, sampVars, graph, report, pipeCloses,
                 timeouts, nWrites, writeFails, readFails, readOks,
                 itemVars>>

\* case response := <-pipe on the closed pipe: the zero value, a nil *dns.Conn
MainRecvClosed ==
  /\ Running
  /\ mpc = "select"
  /\ pipeClosed
  /\ response' = "nil"
  /\ mpc' = "read"
  /\ UNCHANGED <<cfgVars, panicVars, stats, chanVars, now, i, mreg, mTick,
                 prodVars, workVars, sampVars, graph, report, histVars, itemVars>>

\* response.ReadMsg()
MainRead ==
  /\ Running
  /\ mpc = "read"
  /\ IF response = "nil"
       THEN /\ MainPanic("nil pointer dereference")
            /\ mpc' = "closeDone"
            /\ UNCHANGED <<mreg, readFails, readOks>>
       ELSE /\ \E ok \in BOOLEAN :
                 IF ok
                   THEN /\ mpc' = "successStore"
                        /\ mreg' = stats.success
                        /\ readOks' = readOks + 1
                        /\ UNCHANGED readFails
                   ELSE /\ mpc' = "failStore"
                        /\ mreg' = stats.fail
                        /\ readFails' = readFails + 1
                        /\ UNCHANGED readOks
            /\ UNCHANGED panicVars
  /\ UNCHANGED <<cfgVars, stats, chanVars, now, i, response, mTick, prodVars,
                 workVars, sampVars, graph, report, pipeCloses, timeouts,
                 nWrites, nSent, writeFails,
                 itemVars>>

\* mutant: a decoded response is counted as a failure
MainStore_CountsFail ==
  /\ Running
  /\ mpc \in {"successStore", "failStore"}
  /\ stats' = [stats EXCEPT !.fail = mreg + 1]
  /\ mreg' = 0
  /\ response' = "none"
  /\ i' = i + 1
  /\ mpc' = "loop"
  /\ UNCHANGED <<cfgVars, panicVars, chanVars, now, mTick, prodVars, workVars,
                 sampVars, graph, report, histVars, itemVars>>

MainStore ==
  /\ Running
  /\ mpc \in {"successStore", "failStore"}
  /\ stats' = IF mpc = "successStore"
                THEN [stats EXCEPT !.success = mreg + 1]
                ELSE [stats EXCEPT !.fail = mreg + 1]
  /\ mreg' = 0
  /\ response' = "none"
  /\ i' = i + 1
  /\ mpc' = "loop"
  /\ UNCHANGED <<cfgVars, panicVars, chanVars, now, mTick, prodVars, workVars,
                 sampVars, graph, report, histVars, itemVars>>

\* case <-ticker.C: close(pipe)
MainTimeout ==
  /\ Running
  /\ mpc = "select"
  /\ mTick
  /\ timeouts' = timeouts + 1
  /\ pipeCloses' = pipeCloses + 1
  /\ IF pipeClosed
       THEN /\ MainPanic("close of closed channel")
            /\ mpc' = "closeDone"
            /\ UNCHANGED pipeClosed
       ELSE /\ pipeClosed' = TRUE
            /\ mpc' = "sendDone"
            /\ UNCHANGED panicVars
  /\ UNCHANGED <<cfgVars, stats, domains, domainsClosed, doneClosed,
                 connCloses, now, i, response, mreg, mTick, prodVars,
                 workVars, sampVars, graph, report, nWrites, nSent,
                 writeFails, readFails, readOks,
                 itemVars>>

\* done <- true, meeting case <-done of the sampler; then break leaves the
\* select statement and the for loop goes on with i++
MainSendDone ==
  /\ Running
  /\ mpc = "sendDone"
  /\ spc = "select"
  /\ spc' = "returned"
  /\ i' = i + 1
  /\ mpc' = "loop"
  /\ UNCHANGED <<cfgVars, panicVars, stats, chanVars, now, response, mreg,
                 mTick, prodVars, workVars, sTick, displays, timeValues,
                 rateValues, avgRate, graph, report, histVars, itemVars>>

\* ---------------------------------------------------------------------
\* finalStats, main.go 142-154
\* ---------------------------------------------------------------------
MainBuildGraph ==
  /\ Running
  /\ mpc = "finalStats"
  /\ graph' = [built |-> TRUE, timeLen |-> Len(timeValues),
               rateLen |-> Len(rateValues)]
  /\ mpc' = "print"
  /\ UNCHANGED <<cfgVars, panicVars, stats, chanVars, now, i, response, mreg,
                 mTick, prodVars, workVars, sampVars, report, histVars, itemVars>>

MainPrint ==
  /\ Running
  /\ mpc = "print"
  /\ report' = [printed |-> TRUE, attempts |-> stats.attempts,
                success |-> stats.success, fail |-> stats.fail]
  /\ avgRate' = avgRate + getStatAvg
  /\ mpc' = "closeDone"
  /\ UNCHANGED <<cfgVars, panicVars, stats, chanVars, now, i, response, mreg,
                 mTick, prodVars, workVars, spc, sTick, displays, timeValues,
                 rateValues, graph, histVars, itemVars>>

\* ---------------------------------------------------------------------
\* the deferred calls of main, main.go 58-61, last deferred first
\* ---------------------------------------------------------------------
MainCloseDone ==
  /\ Running
  /\ mpc = "closeDone"
  /\ doneClosed' = TRUE
  /\ mpc' = "closePipe"
  /\ UNCHANGED <<cfgVars, panicVars, stats, domains, domainsClosed,
                 pipeClosed, connCloses, now, i, response, mreg, mTick,
                 prodVars, workVars, sampVars, graph, report, histVars, itemVars>>

MainClosePipe ==
  /\ Running
  /\ mpc = "closePipe"
  /\ pipeCloses' = pipeCloses + 1
  /\ IF pipeClosed
       THEN /\ MainPanic("close of closed channel")
            /\ mpc' = "closeDomains"
            /\ UNCHANGED pipeClosed
       ELSE /\ pipeClosed' = TRUE
            /\ mpc' = "closeDomains"
            /\ UNCHANGED panicVars
  /\ UNCHANGED <<cfgVars, stats, domains, domainsClosed, doneClosed,
                 connCloses, now, i, response, mreg, mTick, prodVars,
                 workVars, sampVars, graph, report, timeouts, nWrites, nSent,
                 writeFails, readFails, readOks,
                 itemVars>>

MainCloseDomains ==
  /\ Running
  /\ mpc = "closeDomains"
  /\ domainsClosed' = TRUE
  /\ mpc' = "closeConn"
  /\ UNCHANGED <<cfgVars, panicVars, stats, domains, pipeClosed, doneClosed,
                 connCloses, now, i, response, mreg, mTick, prodVars,
                 workVars, sampVars, graph, report, histVars, itemVars>>

MainCloseConn ==
  /\ Running
  /\ mpc = "closeConn"
  /\ connCloses' = connCloses + 1
  /\ mpc' = "return"
  /\ UNCHANGED <<cfgVars, panicVars, stats, domains, domainsClosed,
                 pipeClosed, doneClosed, now, i, response, mreg, mTick,
                 prodVars, workVars, sampVars, graph, report, histVars, itemVars>>

\* main returns, or its panic has unwound: the process ends and every
\* goroutine stops
MainReturn ==
  /\ Running
  /\ mpc = "return"
  /\ status' = IF mainPanicking THEN "panicked" ELSE "exited"
  /\ mpc' = "exited"
  /\ UNCHANGED <<cfgVars, panicMsg, panicBy, mainPanicking, stats, chanVars, now, i,
                 response, mreg, mTick, prodVars, workVars, sampVars, graph,
                 report, histVars, itemVars>>

\* ---------------------------------------------------------------------
\* stats sampler updateStats, main.go 125-140
\* ---------------------------------------------------------------------
\* case <-done on the closed channel
SamplerDone ==
  /\ Running
  /\ spc = "select"
  /\ doneClosed
  /\ spc' = "returned"
  /\ UNCHANGED <<cfgVars, panicVars, stats, chanVars, now, mainVars, prodVars,
                 workVars, sTick, displays, timeValues, rateValues, avgRate,
                 graph, report, histVars, itemVars>>

\* case <-ticker.C: the first append
\* mutant: the elapsed time is taken with its operands swapped
SamplerTick_Reversed ==
  /\ Running
  /\ spc = "select"
  /\ sTick
  /\ sTick' = FALSE
  /\ timeValues' = Append(timeValues, 0 - now)
  /\ spc' = "appendRate"
  /\ UNCHANGED <<cfgVars, panicVars, stats, chanVars, now, mainVars, prodVars,
                 workVars, displays, rateValues, avgRate, graph, report,
                 histVars, itemVars>>

SamplerTick ==
  /\ Running
  /\ spc = "select"
  /\ sTick
  /\ sTick' = FALSE
  /\ timeValues' = Append(timeValues, now)
  /\ spc' = "appendRate"
  /\ UNCHANGED <<cfgVars, panicVars, stats, chanVars, now, mainVars, prodVars,
                 workVars, displays, rateValues, avgRate, graph, report,
                 histVars, itemVars>>

\* the second append, with its call of getStatAvg
\* mutant: the sampler resets the success counter after each sample
SamplerAppendRate_ResetsCounter ==
  /\ Running
  /\ spc = "appendRate"
  /\ rateValues' = Append(rateValues, getStatAvg)
  /\ avgRate' = avgRate + getStatAvg
  /\ spc' = "select"
  /\ stats' = [stats EXCEPT !.success = 0]
  /\ UNCHANGED <<cfgVars, panicVars, chanVars, now, mainVars, prodVars,
                 workVars, sTick, displays, timeValues, graph, report,
                 histVars, itemVars>>

SamplerAppendRate ==
  /\ Running
  /\ spc = "appendRate"
  /\ rateValues' = Append(rateValues, getStatAvg)
  /\ avgRate' = avgRate + getStatAvg
  /\ spc' = "select"
  /\ UNCHANGED <<cfgVars, panicVars, stats, chanVars, now, mainVars, prodVars,
                 workVars, sTick, displays, timeValues, graph, report,
                 histVars, itemVars>>

\* default: taken when neither done nor the ticker is ready
SamplerDisplay ==
  /\ Running
  /\ spc = "select"
  /\ ~sTick
  /\ ~doneClosed
  /\ mpc # "sendDone"
  /\ displays < MaxDisplays
  /\ displays' = displays + 1
  /\ avgRate' = avgRate + getStatAvg
  /\ UNCHANGED <<cfgVars, panicVars, stats, chanVars, now, mainVars, prodVars,
                 workVars, spc, sTick, timeValues, rateValues, graph, report,
                 histVars, itemVars>>

\* ---------------------------------------------------------------------
Next ==
  \/ Tick
  \/ ProducerNext
  \/ ProducerSend
  \/ \E w \in Workers : WorkerDequeue(w)
  \/ \E w \in Workers : WorkerRangeEnd(w)
  \/ \E w \in Workers : WorkerWrite(w)
  \/ \E w \in Workers : WorkerFailLoad(w)
  \/ \E w \in Workers : WorkerFailStore(w)
  \/ \E w \in Workers : WorkerSendClosed(w)
  \/ \E w \in Workers : WorkerClose(w)
  \/ MainLoop
  \/ \E w \in Workers : MainRecv(w)
  \/ MainRecvClosed
  \/ MainRead
  \/ MainStore
  \/ MainTimeout
  \/ MainSendDone
  \/ MainBuildGraph
  \/ MainPrint
  \/ MainCloseDone
  \/ MainClosePipe
  \/ MainCloseDomains
  \/ MainCloseConn
  \/ MainReturn
  \/ SamplerDone
  \/ SamplerTick
  \/ SamplerAppendRate
  \/ SamplerDisplay

Spec == Init /\ [][Next]_vars

\* ---------------------------------------------------------------------
\* fair scheduling: every goroutine that can take a step eventually takes
\* one, time passes, and a select that is offered done again and again
\* eventually takes it
\* ---------------------------------------------------------------------
MainStep ==
  \/ MainLoop
  \/ \E w \in Workers : MainRecv(w)
  \/ MainRecvClosed
  \/ MainRead
  \/ MainStore
  \/ MainTimeout
  \/ MainBuildGraph
  \/ MainPrint
  \/ MainCloseDone
  \/ MainClosePipe
  \/ MainCloseDomains
  \/ MainCloseConn
  \/ MainReturn

WorkerStep(w) ==
  \/ WorkerDequeue(w)
  \/ WorkerRangeEnd(w)
  \/ WorkerWrite(w)
  \/ WorkerFailLoad(w)
  \/ WorkerFailStore(w)
  \/ WorkerSendClosed(w)
  \/ WorkerClose(w)

SamplerStep ==
  \/ SamplerDone
  \/ SamplerTick
  \/ SamplerAppendRate
  \/ SamplerDisplay

Fairness ==
  /\ WF_vars(Tick)
  /\ WF_vars(MainStep)
  /\ SF_vars(MainSendDone)
  /\ WF_vars(ProducerNext)
  /\ WF_vars(ProducerSend)
  /\ \A w \in 1..MaxT : WF_vars(WorkerStep(w))
  /\ WF_vars(SamplerStep)

FairSpec == Spec /\ Fairness

\* the main goroutine has left the collector loop and entered finalStats
FinalReached == mpc = "finalStats" \/ graph.built

\* the collector is waiting on, or has received from, the Response Pipeline
\* or is handling a response read from the Connection Handle
Collecting == mpc \in {"select", "read", "successStore", "failStore"}

\* =====================================================================
\* the claims
\* =====================================================================

\* C1: in every reachable state success + fail <= attempts, also for an
\* item whose write fails and whose signalled read fails as well.
C1_CountersWithinAttempts == stats.success + stats.fail <= stats.attempts

\* C2: under fair scheduling the main goroutine eventually leaves the
\* collector loop and reaches finalStats, in verbose and non-verbose mode,
\* also after the timeout branch has fired.
C2_ReachesFinalStats == <>FinalReached

\* C3: a timeout is terminal: once the timeout branch has fired the
\* collector never again waits on or receives from the pipe nor reads a
\* response, and the timeout branch fires at most once.
C3_TimeoutTerminal == (timeouts >= 1) => (~Collecting /\ timeouts = 1)

\* C4: the Response Pipeline is closed exactly once: no execution reaches
\* a second close(pipe).
C4_PipeClosedOnce == pipeCloses <= 1

\* C5: when the timeout never fired, the final report shows
\* success + fail = attempts = M.
C5_DrainedEquality ==
  (report.printed /\ timeouts = 0) =>
     /\ report.attempts = domainCount
     /\ report.success + report.fail = report.attempts

\* C6: with M = 0 the collector loop runs no iteration, the report shows
\* 0/0/0 and no goroutine panics during the shutdown sequence.
C6_EmptyBatch ==
  (domainCount = 0) =>
     /\ ~Collecting
     /\ timeouts = 0
     /\ report.printed =>
          (report.attempts = 0 /\ report.success = 0 /\ report.fail = 0)
     /\ status # "panicked"

\* C7: attempts <= M in every reachable state, and attempts = M in every
\* state in which the producer has enqueued all M items.
C7_AttemptsEqualsM ==
  /\ stats.attempts <= domainCount
  /\ (pidx = domainCount) => (stats.attempts = domainCount)

C7_Witness ==
  /\ domainCount >= 2
  /\ pidx = domainCount
  /\ ppc = "done"
  /\ stats.attempts = domainCount

\* C8: rateValues and timeValues have the same length in every reachable
\* state, in particular in what finalStats hands to BuildGraph.
C8_SeriesSameLength ==
  /\ Len(rateValues) = Len(timeValues)
  /\ graph.built => (graph.rateLen = graph.timeLen)

\* C9: a worker has sent as many signals as it has completed write
\* attempts, or one less while it is between the write and the send; it
\* never sends without a preceding write and never dequeues before sending.
C9_OneSignalPerWrite ==
  \A w \in Workers :
     \/ nSent[w] = nWrites[w]
     \/ /\ nSent[w] + 1 = nWrites[w]
        /\ wpc[w] \in {"failLoad", "failStore", "send"}

C9_Witness ==
  \E w \in Workers :
     /\ nWrites[w] >= 2
     /\ nSent[w] = nWrites[w]
     /\ writeFails >= 1

\* C10: when every write succeeded, every read decoded and the timeout
\* never fired, the final report shows attempts = M, success = M, fail = 0.
C10_AllSucceed ==
  (report.printed /\ writeFails = 0 /\ readFails = 0 /\ timeouts = 0) =>
     /\ report.attempts = domainCount
     /\ report.success = domainCount
     /\ report.fail = 0

C10_Witness ==
  /\ report.printed
  /\ writeFails = 0
  /\ readFails = 0
  /\ timeouts = 0
  /\ domainCount >= 2
  /\ report.success = domainCount

\* number of dequeue operations made on the Work Queue so far
RECURSIVE SumUpTo(_, _)
SumUpTo(f, n) == IF n = 0 THEN 0 ELSE f[n] + SumUpTo(f, n - 1)

Dequeues == SumUpTo(dequeued, MaxM)

\* the worker is executing stats.fail++
InFailInc(w) == wpc[w] \in {"failLoad", "failStore"}

\* no stats.X++ is between its load and its store
Quiescent ==
  /\ \A w \in Workers : ~InFailInc(w)
  /\ mpc \notin {"successStore", "failStore"}

\* C11: every work item is dequeued by at most one worker and written at
\* most once; in a run that drains without timeout each of the M items has
\* been dequeued exactly once and written exactly once when finalStats runs.
C11_ItemConsumedOnce ==
  /\ \A k \in 1..MaxM :
        /\ dequeued[k] <= 1
        /\ written[k] <= dequeued[k]
        /\ (k > domainCount) => (dequeued[k] = 0)
  /\ \A v, w \in Workers :
        (v # w /\ wItem[v] # 0) => (wItem[v] # wItem[w])
  /\ (FinalReached /\ timeouts = 0) =>
        \A k \in 1..domainCount : dequeued[k] = 1 /\ written[k] = 1

C11_Witness ==
  /\ report.printed
  /\ timeouts = 0
  /\ threads >= 2
  /\ domainCount >= 2
  /\ writeFails >= 1
  /\ wItem[1] # 0
  /\ wItem[2] # 0

\* C12: a write failure is non-fatal: the worker executes exactly one
\* stats.fail++ for it (storing the value it loaded plus one), the item is
\* not written again, and the worker goes on to its send and its next
\* dequeue; a worker leaves its loop only when the Work Queue is closed and
\* empty, and a worker only ever aborts on a closed pipe.
C12_State ==
  /\ failIncs + Cardinality({w \in Workers : InFailInc(w)}) = writeFails
  /\ \A k \in 1..MaxM : written[k] <= 1
  /\ \A w \in Workers :
        (wpc[w] \in {"close", "done"}) => (domainsClosed /\ domains = <<>>)
  /\ (status = "panicked" /\ panicBy = "worker") => pipeClosed

C12_Step ==
  \A w \in Workers :
     /\ (wpc[w] = "failLoad" /\ wpc'[w] # "failLoad") =>
           (wpc'[w] = "failStore" /\ wreg'[w] = stats.fail)
     /\ (wpc[w] = "failStore" /\ wpc'[w] # "failStore") =>
           (wpc'[w] = "send" /\ stats'.fail = wreg[w] + 1)
     /\ (wpc[w] = "send" /\ wpc'[w] # "send") => (wpc'[w] = "range")

C13_SamplesInBothModes ==
  (now > 1 /\ spc # "returned") =>
     (sTick \/ spc = "appendRate" \/ Len(timeValues) > 1)

\* C14: the Connection Handle is closed exactly once by the time the
\* process ends, never zero times and never twice.
C14_ConnClosedOnce ==
  /\ connCloses <= 1
  /\ (status \in {"exited", "panicked"}) => (connCloses = 1)

C16_NoLostUpdate ==
  Quiescent =>
     /\ stats.fail = writeFails + readFails
     /\ stats.success = readOks

\* C17: no goroutine sends on a closed channel: no worker is at its send on
\* the closed pipe and the producer is not at its send on the closed Work
\* Queue.
C17_NoSendOnClosed ==
  /\ \A w \in Workers : ~(wpc[w] = "send" /\ pipeClosed)
  /\ ~(ppc = "send" /\ domainsClosed)
  /\ panicMsg # "send on closed channel"

\* C18: the sampler has stopped before the series are consumed: once
\* finalStats has handed the series to BuildGraph the sampler is not running
\* and neither series grows.
C18_SamplerStoppedBeforeHandoff ==
  graph.built =>
     /\ spc \in {"absent", "returned"}
     /\ Len(timeValues) = graph.timeLen
     /\ Len(rateValues) = graph.rateLen

\* C19 as stated: attempts equals the number of work items the workers have
\* dequeued so far.
C19_AttemptsEqualsDequeued == stats.attempts = Dequeues

\* C19 amended: attempts is incremented by the producer just before it
\* sends the item: it equals the number of items enqueued so far, plus one
\* while the producer is between the increment and the send, and the number
\* of dequeued items never exceeds it.
C19_AttemptsCountsProduced ==
  /\ stats.attempts = pidx + (IF ppc = "send" THEN 1 ELSE 0)
  /\ Dequeues <= pidx
  /\ Dequeues + Len(domains) = pidx

C19_Witness ==
  /\ stats.attempts = 2
  /\ Dequeues = 0
  /\ ppc = "send"

\* C20: frame condition of the sampler: a step of the sampler loop (stop
\* branch, tick branch with its two appends, display branch) leaves the
\* counters, the Work Queue, the pipe, the connection, the producer and the
\* workers unchanged.
SamplerMoved ==
  \/ spc' # spc
  \/ displays' # displays
  \/ timeValues' # timeValues
  \/ rateValues' # rateValues
  \/ (sTick /\ ~sTick')

C20_SamplerFrame ==
  [][SamplerMoved =>
       UNCHANGED <<stats, domains, domainsClosed, pipeClosed, connCloses,
                   ppc, pidx, wpc, wItem, wreg, response, status>>]_vars

C20_Witness ==
  /\ Len(rateValues) >= 2
  /\ displays >= 1
  /\ spc = "returned"
  /\ stats.success >= 1

TypeOK ==
  /\ threads \in 1..MaxT
  /\ domainCount \in 0..MaxM
  /\ status \in {"running", "panicked", "exited"}
  /\ Len(domains) <= threads
====
